---- MODULE Spec2Model ----
(***************************************************************************)
(* duff: the status / diff / content resolver, in its two deployments      *)
(* (client/src/lib/gitService.ts over isomorphic-git, server/src/index.ts  *)
(* over the git binary), run against one repository whose working tree,    *)
(* index and history change underneath it.                                 *)
(*                                                                         *)
(* Strings the code inspects (paths, revisions, branch names) are          *)
(* sequences of atoms, so that startsWith, substring, split and the        *)
(* falsy test of the empty string are computed and not assumed.  File      *)
(* contents are opaque values compared for equality only.                  *)
(***************************************************************************)
EXTENDS Integers, Sequences, FiniteSets, TLC

VARIABLES commits, index, work, detached, outside, req, resp,
          entries, selection, diffRange, lastClick,
          selectionRef, diffRangeRef, lastClickRef,
          storage, handleCache, fsaRes, pending,
          registry, regRes, stored, storeOps,
          activeRepoId, selectedFile, activeDiff, rangeModifiedFiles,
          repoStatus, fetches

vars == <<commits, index, work, detached, outside, req, resp,
          entries, selection, diffRange, lastClick,
          selectionRef, diffRangeRef, lastClickRef,
          storage, handleCache, fsaRes, pending,
          registry, regRes, stored, storeOps,
          activeRepoId, selectedFile, activeDiff, rangeModifiedFiles,
          repoStatus, fetches>>

repoVars == <<commits, index, work, detached, outside>>

\* the history graph (components/GitGraph.tsx) in its two editions
graphVars == <<entries, selection, diffRange, lastClick,
               selectionRef, diffRangeRef, lastClickRef>>

\* the filesystem adapter (lib/fsaAdapter.ts) and the storage under it
fsaVars == <<storage, handleCache, fsaRes, pending>>

\* the server's registry file (server/src/index.ts) and its last answer
registryVars == <<registry, regRes>>

\* the browser's repository list (lib/repoStore.ts) and the calls on it
storeVars == <<stored, storeOps>>

\* the state of App (App.tsx) and its requests in flight
appVars == <<activeRepoId, selectedFile, activeDiff, rangeModifiedFiles,
             repoStatus, fetches>>

restVars == <<registryVars, storeVars, appVars>>

----------------------------------------------------------------------------
(* Bounds *)

MaxCommits == 2

MaxPathLen == 3

----------------------------------------------------------------------------
(* Strings *)

Min(a, b) == IF a < b THEN a ELSE b

\* String.prototype.startsWith
StartsWith(s, p) == Len(s) >= Len(p) /\ SubSeq(s, 1, Len(p)) = p

\* String.prototype.substring(0, n)
Substring0(s, n) == SubSeq(s, 1, Min(n, Len(s)))

\* the absent query parameter / undefined argument: falsy, like ''
NoStr == << >>

HEADStr == <<"HEAD">>

----------------------------------------------------------------------------
(* The repository the resolver is pointed at *)

PathA == <<"a">>

PathDistB == <<"dist", "/", "b">>

\* repo-relative paths, in the (sorted) order statusMatrix walks them
RepoPaths == <<PathA, PathDistB>>

PathSet == {RepoPaths[i] : i \in 1..Len(RepoPaths)}

Contents == {"x", "y"}

\* what the files of the model are ever written with
FileContents(p) == IF p = PathA THEN Contents ELSE {"x"}

\* a path that a tree, the index or the working tree does not have
Missing == "missing"

\* the tree of the e2e fixture: one committed file
InitTree == [p \in PathSet |-> IF p = PathA THEN "x" ELSE Missing]

\* commit ids; only the first Len(commits) of them name a commit
HexDigit(i) == <<"1", "2", "3", "4", "5", "6", "7", "8", "9">>[i]

Oid(i) == <<"c", HexDigit(i), "f", "f", "e", "e", "0", "d", "b">>

HeadTree == commits[Len(commits)]

HeadOid == Oid(Len(commits))

BranchMain == <<"main">>

\* git.resolveRef / rev-parse of a revision string: HEAD and the ids of the
\* commits that exist resolve, anything else is a bad revision
Resolves(ref) == ref = HEADStr \/ \E i \in 1..Len(commits) : ref = Oid(i)

TreeAt(ref) ==
  IF ref = HEADStr THEN HeadTree
  ELSE commits[CHOOSE i \in 1..Len(commits) : ref = Oid(i)]

\* revision strings a caller sends: absent, HEAD, the id of the first or the
\* second commit (a bad revision while there is no second commit) and an id
\* that never names a commit
BadOid == Oid(9)

Refs == {NoStr, HEADStr, Oid(1), Oid(2), BadOid}

----------------------------------------------------------------------------
(* The history graph and the filesystem adapter: values of their state *)

\* null: falsy, as the absent string is
Null == NoStr

\* the sentinel of the edition of GitGraph that tells unset from working tree
UnsetStr == <<"UNSET">>

WorkingTreeId == <<"WORKING_TREE">>

Selection(from, to) == [from |-> from, to |-> to]

\* the latest click: the hash and modifier handed to the handler, and the
\* selection it found
Click(kind, hash, shiftKey, was) ==
  [kind |-> kind, hash |-> hash, shiftKey |-> shiftKey, was |-> was]

\* the directory handles the user picked, one adapter over each
Roots == {"rootA", "rootB"}

FsDir == <<".git">>

FsFile == <<".git", "/", "HEAD">>

FsPaths == {FsDir, FsFile}

DirEntry == "dir"

FsContents == {"x", "y"}

\* what each picked directory holds at first
InitStorage ==
  [r \in Roots |->
    [p \in FsPaths |-> IF p = FsDir THEN DirEntry
                       ELSE IF r = "rootA" THEN "x" ELSE "y"]]

\* a FileSystemHandle: the directory it was obtained under, its path and kind
Handle(root, path, kind) == [root |-> root, path |-> path, kind |-> kind]

NoHandle == Handle("none", NoStr, "none")

\* what an adapter call returned: stat fields, file data or directory names
FsaValue(isFile, isDirectory, size, data) ==
  [isFile |-> isFile, isDirectory |-> isDirectory, size |-> size, data |-> data]

NoValue == FsaValue(FALSE, FALSE, 0, Missing)

\* the latest adapter call: its outcome, whether it asked a handle for a
\* child or touched the handle cache, and whether it is a readFile straight
\* after a successful writeFile of the same path through the same adapter
FsaRes(op, root, path, outcome, value) ==
  [op |-> op, root |-> root, path |-> path, outcome |-> outcome,
   value |-> value, lookups |-> FALSE, cacheRead |-> FALSE,
   cacheWrite |-> FALSE, afterWrite |-> FALSE, written |-> Missing,
   names |-> {}]

NoFsaRes == FsaRes("none", "none", NoStr, "none", NoValue)

\* a stat whose walk awaits the lookup of part i under the handle it holds
Pending(root, path, i, handle) ==
  [root |-> root, path |-> path, i |-> i, handle |-> handle]

NoPending == Pending("none", NoStr, 0, NoHandle)

\* the answer of a registry route
RegRes(op, arg, status, before) ==
  [op |-> op, arg |-> arg, status |-> status, before |-> before]

\* activeDiff of App: the patches, and the request they were computed for
Shown(repo, file, range, patches) ==
  [repo |-> repo, file |-> file, range |-> range, patches |-> patches]

\* rangeModifiedFiles of App, and the request it was computed for
RangeFiles(repo, range, files) == [repo |-> repo, range |-> range, files |-> files]

\* the repositories of the sidebar: A is the repository of this model, B
\* another one with a history of its own and a clean working tree
AppRepos == {"A", "B"}

\* a call of gitService that has not settled yet, and what it was made for
Fetch(kind, repo, file, range) ==
  [kind |-> kind, repo |-> repo, file |-> file, range |-> range]

\* repo.status of App: undefined until the first getStatus resolves
NoStatus == [known |-> FALSE, modifiedFiles |-> << >>, hasChanges |-> FALSE]

----------------------------------------------------------------------------
(* Requests and responses (the last call and what it returned) *)

NoPatch == << >>

Request(op, file, from, to, version) ==
  [op |-> op, file |-> file, from |-> from, to |-> to, version |-> version]

NoReq == Request("none", NoStr, NoStr, NoStr, NoStr)

NoCmp == [left |-> NoStr, right |-> NoStr]

Response(status) ==
  [status |-> status, branch |-> NoStr, files |-> << >>, hasChanges |-> FALSE,
   diff |-> NoPatch, cmp |-> NoCmp, bytes |-> Missing, effects |-> << >>,
   log |-> << >>]

NoResp == Response("none")

Init ==
  /\ commits = <<InitTree>>
  /\ index = InitTree
  /\ work = InitTree
  /\ detached = FALSE
  /\ outside = {}
  /\ req = NoReq
  /\ resp = NoResp
  /\ entries = << >>
  /\ selection = Selection(Null, Null)
  /\ diffRange = Selection(Null, Null)
  /\ lastClick = Click("none", Null, FALSE, Selection(Null, Null))
  /\ selectionRef = Selection(UnsetStr, UnsetStr)
  /\ diffRangeRef = Selection(Null, Null)
  /\ lastClickRef = Click("none", Null, FALSE, Selection(UnsetStr, UnsetStr))
  /\ storage = InitStorage
  /\ handleCache = [p \in FsPaths |-> NoHandle]
  /\ fsaRes = NoFsaRes
  /\ pending = NoPending
  /\ registry = << >>
  /\ regRes = RegRes("none", << >>, "none", << >>)
  /\ stored = << >>
  /\ storeOps = << >>
  /\ activeRepoId = "none"
  /\ selectedFile = Null
  /\ activeDiff = Shown("none", Null, Selection(Null, Null), << >>)
  /\ rangeModifiedFiles = RangeFiles("none", Selection(Null, Null), << >>)
  /\ repoStatus = [r \in AppRepos |-> NoStatus]
  /\ fetches = {}

----------------------------------------------------------------------------
(* What happens to the repository between two queries *)

\* A query is a pure read: it is issued on the state the repository is in,
\* its answer is kept until the repository moves on.
Idle == req.op = "none"

\* helpers.updateFile: fs.writeFileSync into the working tree
updateFile(p, c) ==
  /\ work[p] # c
  /\ work' = [work EXCEPT ![p] = c]
  /\ req' = NoReq /\ resp' = NoResp
  /\ UNCHANGED <<commits, index, detached, outside>>
  /\ UNCHANGED <<graphVars, restVars, fsaVars>>

\* the working-tree file is deleted
removeFile(p) ==
  /\ work[p] # Missing
  /\ work' = [work EXCEPT ![p] = Missing]
  /\ req' = NoReq /\ resp' = NoResp
  /\ UNCHANGED <<commits, index, detached, outside>>
  /\ UNCHANGED <<graphVars, restVars, fsaVars>>

\* git add <p>
gitAdd(p) ==
  /\ index[p] # work[p]
  /\ index' = [index EXCEPT ![p] = work[p]]
  /\ req' = NoReq /\ resp' = NoResp
  /\ UNCHANGED <<commits, work, detached, outside>>
  /\ UNCHANGED <<graphVars, restVars, fsaVars>>

\* helpers.commitChanges: git commit of the index
gitCommit ==
  /\ Len(commits) < MaxCommits
  /\ index # HeadTree
  /\ commits' = Append(commits, index)
  /\ req' = NoReq /\ resp' = NoResp
  /\ UNCHANGED <<index, work, detached, outside>>
  /\ UNCHANGED <<graphVars, restVars, fsaVars>>

\* git checkout --detach / git checkout main
gitCheckout ==
  /\ detached' = ~detached
  /\ req' = NoReq /\ resp' = NoResp
  /\ UNCHANGED <<commits, index, work, outside>>
  /\ UNCHANGED <<graphVars, restVars, fsaVars>>

----------------------------------------------------------------------------
(* The object-store reader (isomorphic-git) as gitService calls it *)

Returned(v) == [threw |-> FALSE, value |-> v]

Threw == [threw |-> TRUE, value |-> NoStr]

\* git.currentBranch: the branch name; undefined (falsy) on a detached HEAD,
\* or an exception when the reader rejects the unresolved symbolic ref
currentBranchOutcomes ==
  IF detached THEN {Returned(NoStr), Threw} ELSE {Returned(BranchMain)}

\* git.resolveRef({ref})
resolveRef(ref) == IF Resolves(ref) THEN Returned(HeadOid) ELSE Threw

\* Array.prototype.indexOf on the [undefined, head, workdir, stage] entry
IndexOf(entry, v) == (CHOOSE j \in 1..Len(entry) :
                        /\ entry[j] = v
                        /\ \A k \in 1..(j - 1) : entry[k] # v) - 1

\* one statusMatrix row [filepath, HEAD, WORKDIR, STAGE]
MatrixRow(p) ==
  LET entry == <<Missing, HeadTree[p], work[p], index[p]>>
  IN  <<p, IndexOf(entry, entry[2]), IndexOf(entry, entry[3]),
        IndexOf(entry, entry[4])>>

\* the filter getStatus passes to statusMatrix
StatusFilter(path) ==
  /\ ~StartsWith(path, <<"node_modules", "/">>)
  /\ ~StartsWith(path, <<".git", "/">>)
  /\ ~StartsWith(path, <<"dist", "/">>)

Known(p) == HeadTree[p] # Missing \/ work[p] # Missing \/ index[p] # Missing

\* git.statusMatrix({filter}), filtered by the filter of getStatus or not at
\* all: a row per path the walk passes to the filter and finds in the HEAD
\* tree, the working tree or the index
statusMatrix(filtered) ==
  LET scanned == SelectSeq(RepoPaths, LAMBDA p :
                   Known(p) /\ (filtered => StatusFilter(p)))
  IN  [i \in 1..Len(scanned) |-> MatrixRow(scanned[i])]

\* git.readBlob({oid: ref, filepath: path}): the blob of path at the revision
\* the caller names (gitService passes 'HEAD' and commit ids alike), a failure
\* on a bad revision or when the revision has no such path
readBlob(ref, path) ==
  IF Resolves(ref) /\ TreeAt(ref)[path] # Missing
  THEN Returned(TreeAt(ref)[path]) ELSE Threw

\* fs.readFile(path) of the adapter over the repository's directory handle
readFile(path) == IF work[path] # Missing THEN Returned(work[path]) ELSE Threw

----------------------------------------------------------------------------
(* client/src/lib/gitService.ts *)

\* .map(row => row[0])
rowPaths(rows) == [i \in 1..Len(rows) |-> rows[i][1]]

UnknownStr == <<"unknown">>

WorkingTreeStr == <<"Working Tree">>

\* `a || b` on strings
OrElse(a, b) == IF a # NoStr THEN a ELSE b

\* the branch label of getStatus, cb the outcome of git.currentBranch
statusBranch(cb) ==
  IF ~cb.threw THEN OrElse(cb.value, HEADStr)
  ELSE LET ref == resolveRef(HEADStr)
       IN  IF ~ref.threw THEN Substring0(ref.value, 7) ELSE UnknownStr

\* the filter with the stage column forgotten
statusModified_headWorkOnly(row) == row[2] # row[3]

statusModified(row) == row[2] # row[3] \/ row[3] # row[4]

getStatus(cb) ==
  LET modifiedFiles ==
        rowPaths(SelectSeq(statusMatrix(TRUE), statusModified))
  IN  [branch |-> statusBranch(cb),
       modifiedFiles |-> modifiedFiles,
       hasChanges |-> Len(modifiedFiles) > 0]

rangeModified(row) == row[2] # row[3]

\* the matrix branch taken for every call
getFiles_alwaysMatrix(from, to) ==
  rowPaths(SelectSeq(statusMatrix(FALSE), rangeModified))

getFiles(from, to) ==
  IF from = NoStr /\ to = NoStr
  THEN getStatus(Returned(BranchMain)).modifiedFiles
  ELSE rowPaths(SelectSeq(statusMatrix(FALSE), rangeModified))

\* the two closures of getDiff: a failed read is the empty string
EmptyText == ""

getBlob(ref, path) ==
  LET r == readBlob(ref, path) IN IF r.threw THEN EmptyText ELSE r.value

getWorking(path) ==
  LET r == readFile(path) IN IF r.threw THEN EmptyText ELSE r.value

\* createPatch(fileName, oldStr, newStr, oldHeader, newHeader) of `diff`:
\* the file headers, and hunks exactly when the two texts differ
createPatch(f, oldC, newC, oldHeader, newHeader) ==
  [file |-> f, old |-> oldC, new |-> newC,
   oldHeader |-> oldHeader, newHeader |-> newHeader,
   hunks |-> oldC # newC]

diffOld(from, f) == getBlob(OrElse(from, HEADStr), f)

\* the new side read from a revision in every case
diffNew_fromHead(to, f) == getBlob(OrElse(to, HEADStr), f)

diffNew(to, f) == IF to # NoStr THEN getBlob(to, f) ELSE getWorking(f)

\* the skip without its `&& !file`
diffSkips_ignoresFile(file, from, to, f) == diffOld(from, f) = diffNew(to, f)

diffSkips(file, from, to, f) ==
  diffOld(from, f) = diffNew(to, f) /\ file = NoStr

\* a side of f that could not be read
sideFails(from, to, f) ==
  \/ readBlob(OrElse(from, HEADStr), f).threw
  \/ IF to # NoStr THEN readBlob(to, f).threw ELSE readFile(f).threw

\* the loop ended by the first file with a side that cannot be read
getDiff_abortsBatch(file, from, to) ==
  LET files == IF file # NoStr THEN <<file>> ELSE getFiles(from, to)
      ok(n) == \A i \in 1..n : ~sideFails(from, to, files[i])
      done  == SelectSeq([i \in 1..Len(files) |-> <<i, files[i]>>],
                         LAMBDA e : ok(e[1]))
      kept  == SelectSeq([i \in 1..Len(done) |-> done[i][2]],
                         LAMBDA f : ~diffSkips(file, from, to, f))
  IN  [i \in 1..Len(kept) |->
        createPatch(kept[i], diffOld(from, kept[i]), diffNew(to, kept[i]),
                    OrElse(from, HEADStr), OrElse(to, WorkingTreeStr))]

getDiff(file, from, to) ==
  LET files == IF file # NoStr THEN <<file>> ELSE getFiles(from, to)
      kept  == SelectSeq(files, LAMBDA f : ~diffSkips(file, from, to, f))
  IN  [i \in 1..Len(kept) |->
        createPatch(kept[i], diffOld(from, kept[i]), diffNew(to, kept[i]),
                    OrElse(from, HEADStr), OrElse(to, WorkingTreeStr))]

\* the pair of snapshots the loop of getDiff reads for every file
getDiffCmp(from, to) ==
  [left |-> OrElse(from, HEADStr), right |-> OrElse(to, WorkingTreeStr)]

getFileContent(filePath, version) ==
  IF version # NoStr THEN readBlob(version, filePath) ELSE readFile(filePath)

ClientGetStatus ==
  \E cb \in currentBranchOutcomes :
    LET s == getStatus(cb) IN
    /\ Idle
    /\ req' = Request("getStatus", NoStr, NoStr, NoStr, NoStr)
    /\ resp' = [Response("ok") EXCEPT !.branch = s.branch,
                                      !.files = s.modifiedFiles,
                                      !.hasChanges = s.hasChanges]
    /\ UNCHANGED <<repoVars, graphVars, restVars, fsaVars>>

ClientGetFiles ==
  \E from \in Refs, to \in Refs :
    /\ Idle
    /\ req' = Request("getFiles", NoStr, from, to, NoStr)
    /\ resp' = [Response("ok") EXCEPT !.files = getFiles(from, to)]
    /\ UNCHANGED <<repoVars, graphVars, restVars, fsaVars>>

ClientGetDiff ==
  \E file \in PathSet \cup {NoStr}, from \in Refs, to \in Refs :
    /\ Idle
    /\ req' = Request("getDiff", file, from, to, NoStr)
    /\ resp' = [Response("ok") EXCEPT !.diff = getDiff(file, from, to),
                                      !.cmp = getDiffCmp(from, to)]
    /\ UNCHANGED <<repoVars, graphVars, restVars, fsaVars>>

ClientGetFileContent ==
  \E filePath \in PathSet, version \in Refs :
    LET r == getFileContent(filePath, version) IN
    /\ Idle
    /\ req' = Request("getFileContent", filePath, NoStr, NoStr, version)
    /\ resp' = [(IF r.threw THEN Response("null")
                  ELSE [Response("ok") EXCEPT !.bytes = r.value])
                EXCEPT !.effects = IF version # NoStr THEN <<"readBlob">>
                                   ELSE <<"readFile">>]
    /\ UNCHANGED <<repoVars, graphVars, restVars, fsaVars>>

----------------------------------------------------------------------------
(* The git binary (simple-git) as server/src/index.ts calls it *)

\* git status --porcelain: every path whose HEAD, index and working-tree
\* entries are not all the same (staged, unstaged, deleted, untracked)
gitStatusFiles ==
  SelectSeq(RepoPaths, LAMBDA p : ~(HeadTree[p] = index[p] /\ index[p] = work[p]))

\* git rev-parse --abbrev-ref HEAD
gitAbbrevRefHead == IF detached THEN HEADStr ELSE BranchMain

\* the working-tree side of `git diff <commit>`: the files the index tracks
gitWorkSide(p) == IF index[p] # Missing THEN work[p] ELSE Missing

gitSide(rev, p) == IF rev = WorkingTreeStr THEN gitWorkSide(p) ELSE TreeAt(rev)[p]

gitRevOk(rev) == rev = WorkingTreeStr \/ Resolves(rev)

\* git diff <left>..<right> | git diff <left>, limited to -- file when given:
\* the paths whose two sides differ, or a failure on a bad revision
gitDiffPaths(cmp, file) ==
  IF gitRevOk(cmp.left) /\ gitRevOk(cmp.right)
  THEN Returned(SelectSeq(RepoPaths, LAMBDA p :
         /\ gitSide(cmp.left, p) # gitSide(cmp.right, p)
         /\ (file = NoStr \/ file = p)))
  ELSE [threw |-> TRUE, value |-> << >>]

gitPatch(cmp, p) ==
  [file |-> p, old |-> gitSide(cmp.left, p), new |-> gitSide(cmp.right, p),
   oldHeader |-> cmp.left, newHeader |-> cmp.right, hunks |-> TRUE]

----------------------------------------------------------------------------
(* server/src/index.ts: status, files, diff *)

serverStatus ==
  [Response("200") EXCEPT !.branch = gitAbbrevRefHead,
                          !.files = gitStatusFiles,
                          !.hasChanges = Len(gitStatusFiles) > 0]

\* the revision arguments pushed after --no-color / --name-only
serverRevArgs(from, to) ==
  IF from # NoStr /\ to # NoStr THEN [left |-> from, right |-> to]
  ELSE IF from # NoStr THEN [left |-> from, right |-> WorkingTreeStr]
  ELSE [left |-> HEADStr, right |-> WorkingTreeStr]

serverFiles(from, to) ==
  IF (from # NoStr /\ to # NoStr) \/ from # NoStr THEN
    LET r == gitDiffPaths(serverRevArgs(from, to), NoStr)
    IN  IF r.threw THEN Response("500")
        ELSE [Response("200") EXCEPT !.files = r.value]
  ELSE \* Default: show working tree changes (status)
    [Response("200") EXCEPT !.files = gitStatusFiles]

serverDiff(file, from, to) ==
  LET cmp == serverRevArgs(from, to)
      r   == gitDiffPaths(cmp, file)
  IN  IF r.threw THEN Response("500")
      ELSE [Response("200") EXCEPT
              !.diff = [i \in 1..Len(r.value) |-> gitPatch(cmp, r.value[i])],
              !.cmp = cmp]

ServerGetStatus ==
  /\ Idle
  /\ req' = Request("GET status", NoStr, NoStr, NoStr, NoStr)
  /\ resp' = serverStatus
  /\ UNCHANGED <<repoVars, graphVars, restVars, fsaVars>>

ServerGetFiles ==
  \E from \in Refs, to \in Refs :
    /\ Idle
    /\ req' = Request("GET files", NoStr, from, to, NoStr)
    /\ resp' = serverFiles(from, to)
    /\ UNCHANGED <<repoVars, graphVars, restVars, fsaVars>>

ServerGetDiff ==
  \E file \in PathSet \cup {NoStr}, from \in Refs, to \in Refs :
    /\ Idle
    /\ req' = Request("GET diff", file, from, to, NoStr)
    /\ resp' = serverDiff(file, from, to)
    /\ UNCHANGED <<repoVars, graphVars, restVars, fsaVars>>

----------------------------------------------------------------------------
(* node:path (posix) on the strings of the content request *)

Dot == <<".">>

DotDot == <<".", ".">>

Slash == "/"

RECURSIVE SplitFrom(_, _)
SplitFrom(s, cur) ==
  IF s = << >> THEN <<cur>>
  ELSE IF Head(s) = Slash THEN <<cur>> \o SplitFrom(Tail(s), << >>)
  ELSE SplitFrom(Tail(s), Append(cur, Head(s)))

\* String.prototype.split('/')
Split(s) == SplitFrom(s, << >>)

RECURSIVE Join(_)
\* Array.prototype.join('/')
Join(segs) ==
  IF segs = << >> THEN << >>
  ELSE IF Len(segs) = 1 THEN segs[1]
  ELSE segs[1] \o <<Slash>> \o Join(Tail(segs))

RECURSIVE normalizeSegments(_, _)
\* normalizeString: empty and "." segments dropped, ".." pops (stays at /)
normalizeSegments(stack, segs) ==
  IF segs = << >> THEN stack
  ELSE LET g == Head(segs) IN
    IF g = << >> \/ g = Dot THEN normalizeSegments(stack, Tail(segs))
    ELSE IF g = DotDot
    THEN normalizeSegments(SubSeq(stack, 1, Len(stack) - 1), Tail(segs))
    ELSE normalizeSegments(Append(stack, g), Tail(segs))

pathIsAbsolute(s) == s # << >> /\ Head(s) = Slash

\* path.resolve(base, s), base an absolute normalized path (its segments)
pathResolve(base, s) ==
  IF pathIsAbsolute(s) THEN normalizeSegments(<< >>, Split(s))
  ELSE normalizeSegments(base, Split(s))

RECURSIVE commonPrefixLen(_, _)
commonPrefixLen(a, b) ==
  IF a = << >> \/ b = << >> \/ Head(a) # Head(b) THEN 0
  ELSE 1 + commonPrefixLen(Tail(a), Tail(b))

\* path.relative(from, to) of two absolute normalized paths, as a string
pathRelative(from, to) ==
  LET c == commonPrefixLen(from, to)
  IN  Join([i \in 1..(Len(from) - c) |-> DotDot] \o SubSeq(to, c + 1, Len(to)))

\* relative.replace(/\\/g, '/')
backslashToSlash(s) == [i \in 1..Len(s) |-> IF s[i] = "\\" THEN Slash ELSE s[i]]

----------------------------------------------------------------------------
(* The host file system under the server *)

\* repo.path, already absolute and normalized
RepoRoot == << <<"r">> >>

\* a file of the host outside every repository
OutsideFile == << <<"a">> >>

OutsideContent == "secret"

InRoot(abs) == Len(abs) > Len(RepoRoot) /\ SubSeq(abs, 1, Len(RepoRoot)) = RepoRoot

RepoRel(abs) == Join(SubSeq(abs, Len(RepoRoot) + 1, Len(abs)))

TreeLookup(tree, p) == IF p \in PathSet THEN tree[p] ELSE Missing

isProperPrefixDir(segs, tree) ==
  \E p \in PathSet : /\ tree[p] # Missing
                     /\ Len(Split(p)) > Len(segs)
                     /\ SubSeq(Split(p), 1, Len(segs)) = segs

diskIsFile(abs) ==
  \/ InRoot(abs) /\ TreeLookup(work, RepoRel(abs)) # Missing
  \/ abs \in outside

diskIsDir(abs) ==
  \/ abs = << >>
  \/ abs = RepoRoot
  \/ InRoot(abs) /\ isProperPrefixDir(SubSeq(abs, Len(RepoRoot) + 1, Len(abs)), work)

\* fs.existsSync
existsSync(abs) == diskIsFile(abs) \/ diskIsDir(abs)

\* fs.readFileSync: the bytes of a file, EISDIR / ENOENT otherwise
readFileSync(abs) ==
  IF abs \in outside THEN [threw |-> FALSE, value |-> OutsideContent]
  ELSE IF diskIsFile(abs) THEN [threw |-> FALSE, value |-> work[RepoRel(abs)]]
  ELSE [threw |-> TRUE, value |-> Missing]

\* git cat-file -p HEAD:<gitPath>: the blob, the listing of a tree, or a failure
TreeListing == "tree"

gitCatFileHead(gitPath) ==
  IF TreeLookup(HeadTree, gitPath) # Missing
  THEN [threw |-> FALSE, value |-> HeadTree[gitPath]]
  ELSE IF gitPath # NoStr /\ isProperPrefixDir(Split(gitPath), HeadTree)
  THEN [threw |-> FALSE, value |-> TreeListing]
  ELSE [threw |-> TRUE, value |-> Missing]

\* a host file outside the repository appears or disappears
hostWrite ==
  /\ outside' = IF OutsideFile \in outside THEN {} ELSE {OutsideFile}
  /\ req' = NoReq /\ resp' = NoResp
  /\ UNCHANGED <<commits, index, work, detached>>
  /\ UNCHANGED <<graphVars, restVars, fsaVars>>

----------------------------------------------------------------------------
(* server/src/index.ts: content *)

\* the check without its startsWith('..')
contentIsSafe_noDotDot(relative) == relative # NoStr /\ ~pathIsAbsolute(relative)

contentIsSafe(relative) ==
  relative # NoStr /\ ~StartsWith(relative, DotDot) /\ ~pathIsAbsolute(relative)

serverContent(known, file, version) ==
  IF ~known THEN Response("404")
  ELSE IF file = NoStr THEN Response("400")
  ELSE
    LET repoPath == RepoRoot
        fullPath == pathResolve(repoPath, file)
        relative == pathRelative(repoPath, fullPath)
    IN
    IF ~contentIsSafe(relative) THEN Response("403")
    ELSE
      LET gitPath == backslashToSlash(relative) IN
      IF version = HEADStr THEN
        LET data == gitCatFileHead(gitPath) IN
        IF data.threw THEN [Response("404") EXCEPT !.effects = <<"git">>]
        ELSE [Response("200") EXCEPT !.bytes = data.value,
                                     !.effects = <<"git">>]
      ELSE
        LET fullPathToRead == pathResolve(repoPath, gitPath) IN
        IF ~existsSync(fullPathToRead)
        THEN [Response("404") EXCEPT !.effects = <<"existsSync">>]
        ELSE LET data == readFileSync(fullPathToRead) IN
          IF data.threw
          THEN [Response("500") EXCEPT !.effects = <<"existsSync", "readFileSync">>]
          ELSE [Response("200") EXCEPT !.bytes = data.value,
                  !.effects = <<"existsSync", "readFileSync">>]

PathTokens == {".", Slash, "a"}

RECURSIVE Strings(_)
\* the strings of at most n tokens
Strings(n) ==
  IF n = 0 THEN {<< >>}
  ELSE Strings(n - 1) \cup
       {Append(s, t) : s \in {u \in Strings(n - 1) : Len(u) = n - 1}, t \in PathTokens}

\* the file parameters a client sends: spelled out of the tokens, or a
\* tracked path of the repository
FileParams == Strings(MaxPathLen) \cup PathSet

Versions == {NoStr, HEADStr, Oid(1)}

ServerGetContent ==
  \/ \E file \in FileParams, version \in Versions :
       /\ Idle
       /\ req' = Request("GET content", file, NoStr, NoStr, version)
       /\ resp' = serverContent(TRUE, file, version)
       /\ UNCHANGED <<repoVars, graphVars, restVars, fsaVars>>
  \/ /\ Idle
     /\ req' = Request("GET content (unknown id)", PathA, NoStr, NoStr, NoStr)
     /\ resp' = serverContent(FALSE, PathA, NoStr)
     /\ UNCHANGED <<repoVars, graphVars, restVars, fsaVars>>

Environment ==
  \/ \E p \in PathSet : \E c \in FileContents(p) : updateFile(p, c)
  \/ \E p \in PathSet : removeFile(p)
  \/ \E p \in PathSet : gitAdd(p)
  \/ gitCommit
  \/ gitCheckout

Next ==
  \/ Environment
  \/ ClientGetStatus
  \/ ClientGetFiles
  \/ ClientGetDiff
  \/ ServerGetStatus
  \/ ServerGetFiles
  \/ ServerGetDiff

Spec == Init /\ [][Next]_vars

\* the content query of both deployments
NextContent ==
  \/ Environment
  \/ hostWrite
  \/ ClientGetFileContent
  \/ ServerGetContent

SpecContent == Init /\ [][NextContent]_vars

----------------------------------------------------------------------------
(* Properties *)

Range(seq) == {seq[i] : i \in DOMAIN seq}

Succeeded == resp.status \in {"ok", "200"}

\* the resolved path is neither the repository root nor below it
escapesRoot(file) ==
  LET full == pathResolve(RepoRoot, file)
  IN  ~(Len(full) >= Len(RepoRoot) /\ SubSeq(full, 1, Len(RepoRoot)) = RepoRoot)

\* C1: a content request of a registered repository whose file resolves
\* outside the repository root is answered 403, and nothing was read from the
\* disk and git was not run before the answer, whatever the disk holds.
C1_PathEscapeDenied ==
  (req.op = "GET content" /\ req.file # NoStr /\ escapesRoot(req.file)) =>
    (resp.status = "403" /\ resp.effects = << >>)

\* the escaping path names a file that exists on the host
C1_Witness ==
  /\ req.op = "GET content"
  /\ escapesRoot(req.file)
  /\ pathResolve(RepoRoot, req.file) \in outside
  /\ resp.status = "403"

\* the two snapshots the diff of one path compares for the bounds (from, to):
\* from, else HEAD, against to, else the working tree; a side that cannot be
\* read is the empty text
leftSnapshot(from, p) ==
  LET r == readBlob(OrElse(from, HEADStr), p)
  IN  IF r.threw THEN EmptyText ELSE r.value

rightSnapshot(to, p) ==
  LET r == IF to # NoStr THEN readBlob(to, p) ELSE readFile(p)
  IN  IF r.threw THEN EmptyText ELSE r.value

boundOk(ref) == ref = NoStr \/ Resolves(ref)

\* C2: getFiles(from, to) lists a path exactly when the two snapshots getDiff
\* resolves for that path and the same bounds differ (stated for bounds that
\* name existing revisions).
C2_FilesConsistentWithDiff ==
  (req.op = "getFiles" /\ boundOk(req.from) /\ boundOk(req.to)) =>
    \A p \in PathSet :
      p \in Range(resp.files) <=>
        leftSnapshot(req.from, p) # rightSnapshot(req.to, p)

\* C3: without bounds, getFiles returns the same set of paths as the
\* modifiedFiles of getStatus on the same repository state, in the browser
\* and on the server.
C3_FilesEqualStatus ==
  /\ (req.op = "getFiles" /\ req.from = NoStr /\ req.to = NoStr) =>
       \A cb \in currentBranchOutcomes :
         Range(resp.files) = Range(getStatus(cb).modifiedFiles)
  /\ (req.op = "GET files" /\ req.from = NoStr /\ req.to = NoStr) =>
       (Succeeded /\ Range(resp.files) = Range(serverStatus.files))

\* an unbounded getFiles that has something to list and something to leave out
C3_Witness ==
  /\ req.op = "getFiles" /\ req.from = NoStr /\ req.to = NoStr
  /\ resp.files # << >>
  /\ \E p \in PathSet : Known(p) /\ p \notin Range(resp.files)

\* C4: a query with from = "HEAD" and no to answers what the same query
\* without bounds answers: getFiles and getDiff, with and without a file, in
\* the browser and on the server.
C4_DefaultsAreHeadVsWorkingTree ==
  (req.from = HEADStr /\ req.to = NoStr) =>
    /\ req.op = "getFiles" => Range(resp.files) = Range(getFiles(NoStr, NoStr))
    /\ req.op = "getDiff" => resp.diff = getDiff(req.file, NoStr, NoStr)
    /\ req.op = "GET files" => resp = serverFiles(NoStr, NoStr)
    /\ req.op = "GET diff" => resp = serverDiff(req.file, NoStr, NoStr)

\* C5: for every combination of from and to, the diff of the server and the
\* diff of the browser compare from, else HEAD, against to, else the working
\* tree.
C5_SameSnapshotPair ==
  ((req.op = "getDiff" \/ req.op = "GET diff")
      /\ boundOk(req.from) /\ boundOk(req.to)) =>
    /\ Succeeded
    /\ resp.cmp = [left |-> OrElse(req.from, HEADStr),
                   right |-> OrElse(req.to, WorkingTreeStr)]

patchesOf(f) == {i \in DOMAIN resp.diff : resp.diff[i].file = f}

\* C6: in getDiff a file with identical snapshots contributes nothing when no
\* file was requested, and a header-only patch when it was requested.
C6_IdenticalSnapshots ==
  (req.op = "getDiff") =>
    /\ req.file = NoStr =>
         \A f \in PathSet :
           leftSnapshot(req.from, f) = rightSnapshot(req.to, f) =>
             patchesOf(f) = {}
    /\ req.file # NoStr =>
         /\ Len(resp.diff) = 1
         /\ resp.diff[1].file = req.file
         /\ leftSnapshot(req.from, req.file) = rightSnapshot(req.to, req.file) =>
              (~resp.diff[1].hunks /\ resp.diff[1].old = resp.diff[1].new)

\* a listed file with identical snapshots was left out of the full diff
C6_Witness ==
  /\ req.op = "getDiff" /\ req.file = NoStr
  /\ resp.diff # << >>
  /\ \E f \in Range(getFiles(req.from, req.to)) :
       /\ leftSnapshot(req.from, f) = rightSnapshot(req.to, f)
       /\ patchesOf(f) = {}

\* C7: in a multi-file getDiff a side that cannot be resolved is the empty
\* text for that file only: getDiff returns, and every listed file whose
\* snapshots differ has its patch, made of its own two snapshots.
C7_PartialFailureLocalized ==
  (req.op = "getDiff" /\ req.file = NoStr) =>
    /\ resp.status = "ok"
    /\ \A f \in Range(getFiles(req.from, req.to)) :
         leftSnapshot(req.from, f) # rightSnapshot(req.to, f) =>
           \E i \in patchesOf(f) :
             /\ resp.diff[i].old = leftSnapshot(req.from, f)
             /\ resp.diff[i].new = rightSnapshot(req.to, f)

\* an earlier file of the batch had an unreadable side; it and a later file
\* both have their patches
C7_Witness ==
  /\ req.op = "getDiff" /\ req.file = NoStr
  /\ LET files == getFiles(req.from, req.to) IN
     \E i, j \in DOMAIN files :
       /\ i < j
       /\ sideFails(req.from, req.to, files[i])
       /\ patchesOf(files[i]) # {}
       /\ patchesOf(files[j]) # {}

scanned(p) == Known(p) /\ StatusFilter(p)

threeEqual(p) == HeadTree[p] = work[p] /\ work[p] = index[p]

\* C8: getStatus lists a scanned path exactly when its committed, working-tree
\* and index states are not all equal; with every scanned path at three equal
\* states the list is empty and hasChanges is false.
C8_ModifiedIffNotAllEqual ==
  (req.op = "getStatus") =>
    /\ \A p \in PathSet : p \in Range(resp.files) <=> (scanned(p) /\ ~threeEqual(p))
    /\ resp.hasChanges = (resp.files # << >>)
    /\ (\A p \in PathSet : scanned(p) => threeEqual(p)) =>
         (resp.files = << >> /\ ~resp.hasChanges)

\* a path listed only because its index state differs
C8_Witness ==
  /\ req.op = "getStatus"
  /\ \E p \in Range(resp.files) : HeadTree[p] = work[p] /\ work[p] # index[p]

\* C9: on a detached HEAD that resolves to a commit, the branch of the status
\* is the first 7 characters of the commit id.
C9_DetachedShortHash ==
  ((req.op = "getStatus" \/ req.op = "GET status") /\ detached) =>
    resp.branch = Substring0(HeadOid, 7)

\* C10: the content query answers from the working tree only when version is
\* absent; for HEAD and for a commit id it answers the blob of the path at
\* that revision, in the browser and on the server.
C10_ContentByVersion ==
  ((req.op = "getFileContent" \/ req.op = "GET content")
      /\ req.file \in PathSet /\ Succeeded) =>
    /\ req.version = NoStr => resp.bytes = work[req.file]
    /\ (req.version # NoStr /\ Resolves(req.version)) =>
         /\ resp.bytes = TreeAt(req.version)[req.file]
         /\ resp.effects \in {<<"readBlob">>, <<"git">>}

----------------------------------------------------------------------------
(* client/src/components/GitGraph.tsx: the selection of the history graph,  *)
(* in the edition whose endpoints are hashes or null and in the edition     *)
(* whose endpoints may also be 'UNSET'                                      *)

MaxEntries == 3

Max(a, b) == IF a >= b THEN a ELSE b

\* the log the server reports for a history of n commits, newest first
LogOf(n) == [i \in 1..n |-> Oid(n + 1 - i)]

\* useMemo: the working-tree pseudo node, then a node per entry
graphData == <<WorkingTreeId>> \o entries

\* onClick: isWorkingTree ? null : node.hash
clickedHash(node) == IF node = WorkingTreeId THEN Null ELSE node

\* graphData.findIndex(n => n.hash === id), counted from 1
findIndex(id) == CHOOSE i \in 1..Len(graphData) : graphData[i] = id

\* handleNodeClick, null edition: the selection it sets (and hands on as is)
handleNodeClick(sel, hash, shiftKey) ==
  IF shiftKey
  THEN IF sel.from = hash THEN [sel EXCEPT !.from = Null]
       ELSE [sel EXCEPT !.to = hash]
  ELSE IF sel.from = hash /\ sel.to = Null THEN [sel EXCEPT !.from = Null]
       ELSE Selection(hash, Null)

\* handleNodeClick, 'UNSET' edition: the selection it sets
refSelection(sel, hash, shiftKey) ==
  IF shiftKey /\ sel.from # UnsetStr THEN [sel EXCEPT !.to = hash]
  ELSE Selection(hash, UnsetStr)

\* the range with no base when the older node is the last of the list
refRange_noRootFallback(newSelection) ==
  LET fromId == OrElse(newSelection.from, WorkingTreeId)
      toId   == IF newSelection.to = UnsetStr THEN fromId
                ELSE OrElse(newSelection.to, WorkingTreeId)
      idx1 == findIndex(fromId)
      idx2 == findIndex(toId)
      olderIdx == Max(idx1, idx2)
      newerIdx == Min(idx1, idx2)
      baseHash == IF olderIdx < Len(graphData) THEN graphData[olderIdx + 1]
                  ELSE Null
      targetHash == IF graphData[newerIdx] = WorkingTreeId THEN Null
                    ELSE graphData[newerIdx]
  IN  IF newSelection.to = UnsetStr /\ fromId = WorkingTreeId
      THEN Selection(Null, Null)
      ELSE Selection(IF baseHash = WorkingTreeId THEN Null ELSE baseHash,
                     targetHash)

\* handleNodeClick, 'UNSET' edition: the range it hands to onSelectRange
refRange(newSelection) ==
  LET fromId == OrElse(newSelection.from, WorkingTreeId)
      toId   == IF newSelection.to = UnsetStr THEN fromId
                ELSE OrElse(newSelection.to, WorkingTreeId)
      idx1 == findIndex(fromId)
      idx2 == findIndex(toId)
      olderIdx == Max(idx1, idx2)
      newerIdx == Min(idx1, idx2)
      baseHash == IF olderIdx < Len(graphData) THEN graphData[olderIdx + 1]
                  ELSE graphData[olderIdx]
      targetHash == IF graphData[newerIdx] = WorkingTreeId THEN Null
                    ELSE graphData[newerIdx]
  IN  IF newSelection.to = UnsetStr /\ fromId = WorkingTreeId
      THEN Selection(Null, Null)
      ELSE Selection(IF baseHash = WorkingTreeId THEN Null ELSE baseHash,
                     targetHash)

\* the log is fetched again after the history has grown
fetchGraph ==
  /\ \E n \in (Len(entries) + 1)..MaxEntries : entries' = LogOf(n)
  /\ UNCHANGED <<selection, diffRange, lastClick,
                 selectionRef, diffRangeRef, lastClickRef>>
  /\ UNCHANGED <<repoVars, req, resp, fsaVars, restVars>>

\* a click on a node of the null edition; App stores the emitted range
NodeClick ==
  \E i \in 1..Len(graphData), shiftKey \in BOOLEAN :
    LET hash == clickedHash(graphData[i])
        newSelection == handleNodeClick(selection, hash, shiftKey)
    IN  /\ selection' = newSelection
        /\ diffRange' = Selection(newSelection.from, newSelection.to)
        /\ lastClick' = Click("click", hash, shiftKey, selection)
        /\ UNCHANGED <<entries, selectionRef, diffRangeRef, lastClickRef>>
        /\ UNCHANGED <<repoVars, req, resp, fsaVars, restVars>>

\* a click on a node of the 'UNSET' edition
NodeClickRef ==
  \E i \in 1..Len(graphData), shiftKey \in BOOLEAN :
    LET hash == clickedHash(graphData[i])
        newSelection == refSelection(selectionRef, hash, shiftKey)
    IN  /\ selectionRef' = newSelection
        /\ diffRangeRef' = refRange(newSelection)
        /\ lastClickRef' = Click("click", hash, shiftKey, selectionRef)
        /\ UNCHANGED <<entries, selection, diffRange, lastClick>>
        /\ UNCHANGED <<repoVars, req, resp, fsaVars, restVars>>

NextGraph ==
  \/ fetchGraph
  \/ NodeClick
  \/ NodeClickRef

SpecGraph == Init /\ [][NextGraph]_vars

----------------------------------------------------------------------------
(* Properties of the history graph *)

Clicked(click) == click.kind = "click"

IsEntry(h) == \E i \in 1..Len(entries) : entries[i] = h

C11_Live ==
  (Clicked(lastClick) /\ ~lastClick.shiftKey
      /\ lastClick.was.from # lastClick.hash)
    => /\ selection = Selection(lastClick.hash, Null)
       /\ diffRange = Selection(lastClick.hash, Null)

C11_Ref ==
  (Clicked(lastClickRef) /\ ~lastClickRef.shiftKey
      /\ lastClickRef.was.from # lastClickRef.hash)
    => /\ selectionRef = Selection(lastClickRef.hash, UnsetStr)
       /\ diffRangeRef = Selection(lastClickRef.hash, Null)

\* C11: a plain click on a node N that is not the selected from leaves N as
\* the from and no to, whatever to was selected before, and the range handed
\* on is N against the working tree, in either edition of the graph
C11_PlainClickSelectsFrom == C11_Live /\ C11_Ref

C12_Live ==
  (Clicked(lastClick) /\ ~lastClick.shiftKey
      /\ lastClick.was.from = lastClick.hash)
    => /\ selection = Selection(Null, Null)
       /\ diffRange = Selection(Null, Null)

C12_Ref ==
  (Clicked(lastClickRef) /\ ~lastClickRef.shiftKey
      /\ lastClickRef.was.from = lastClickRef.hash)
    => /\ selectionRef = Selection(UnsetStr, UnsetStr)
       /\ diffRangeRef = Selection(Null, Null)

\* C12: a plain click on the node that is the selected from, with or without
\* a to selected, returns the selection to its default (nothing selected)
\* and hands on the default range, in either edition of the graph
C12_PlainClickOnFromClears == C12_Live /\ C12_Ref

C13_Live ==
  (Clicked(lastClick) /\ lastClick.shiftKey)
    => /\ selection.to = lastClick.hash
       /\ selection.from = lastClick.was.from

C13_Ref ==
  (Clicked(lastClickRef) /\ lastClickRef.shiftKey
      /\ lastClickRef.was.from # UnsetStr)
    => /\ selectionRef.to = lastClickRef.hash
       /\ selectionRef.from = lastClickRef.was.from

\* C13: a shift-click on a node N sets to to N and leaves from as it was,
\* also when N is the selected from or the working-tree node, in either
\* edition of the graph
C13_ShiftClickSetsTo == C13_Live /\ C13_Ref

\* the endpoint a click on a node addresses
Addressed(sel, click) == IF click.shiftKey THEN sel.to ELSE sel.from

C14_Live ==
  (Clicked(lastClick) /\ lastClick.hash = Null /\ IsEntry(lastClick.was.from))
    => Addressed(selection, lastClick) # Addressed(Selection(Null, Null), lastClick)

C14_Ref ==
  (Clicked(lastClickRef) /\ lastClickRef.hash = Null
      /\ IsEntry(lastClickRef.was.from))
    => Addressed(selectionRef, lastClickRef)
         # Addressed(Selection(UnsetStr, UnsetStr), lastClickRef)

\* C14: an endpoint the user set to the working-tree node (the click on that
\* node while a commit is the from) is stored as a value other than the one
\* of an endpoint never set, in either edition of the graph
C14_WorkingTreeIsNotUnset == C14_Live /\ C14_Ref

\* the range of two history nodes whatever their order: from the node below
\* the older one (the older one itself at the bottom) to the newer one
PairRange(a, b) ==
  LET olderIdx == Max(findIndex(a), findIndex(b))
      newerIdx == Min(findIndex(a), findIndex(b))
  IN  Selection(IF olderIdx < Len(graphData) THEN graphData[olderIdx + 1]
                ELSE graphData[olderIdx],
                graphData[newerIdx])

TwoNodes(sel, click) ==
  /\ Clicked(click) /\ click.shiftKey
  /\ IsEntry(sel.from) /\ IsEntry(sel.to) /\ sel.from # sel.to
  /\ click.was.from = sel.from /\ click.hash = sel.to

C15_Live ==
  TwoNodes(selection, lastClick)
    => diffRange = PairRange(selection.from, selection.to)

C15_Ref ==
  TwoNodes(selectionRef, lastClickRef)
    => diffRangeRef = PairRange(selectionRef.from, selectionRef.to)

\* C15: with two history nodes selected (A, then shift-click B) the range
\* handed on is the same as for B, then shift-click A: its base comes from
\* the node below the older of the two and its target is the newer, in
\* either edition of the graph
C15_RangeIgnoresClickOrder == C15_Live /\ C15_Ref

----------------------------------------------------------------------------
(* The File System Access handles the adapter is given: a handle names a   *)
(* place (picked directory, path), and every call on it looks at what the  *)
(* storage holds at that place now                                          *)

RootHandle(root) == Handle(root, NoStr, "directory")

\* what the storage st holds at a path of a picked directory
EntryIn(st, root, path) ==
  IF path = NoStr THEN DirEntry
  ELSE IF path \in FsPaths THEN st[root][path]
  ELSE Missing

EntryAt(root, path) == EntryIn(storage, root, path)

ChildPath(h, name) ==
  IF h.path = NoStr THEN name ELSE h.path \o <<Slash>> \o name

\* a directory handle whose directory is still there
IsLiveDir(h) == h.kind = "directory" /\ EntryAt(h.root, h.path) = DirEntry

Got(h) == [threw |-> FALSE, handle |-> h]

NotGot == [threw |-> TRUE, handle |-> NoHandle]

\* h.getDirectoryHandle(name)
getDirectoryHandle(h, name) ==
  IF IsLiveDir(h) /\ EntryAt(h.root, ChildPath(h, name)) = DirEntry
  THEN Got(Handle(h.root, ChildPath(h, name), "directory")) ELSE NotGot

\* h.getFileHandle(name)
getFileHandle(h, name) ==
  IF IsLiveDir(h) /\ EntryAt(h.root, ChildPath(h, name)) \in FsContents
  THEN Got(Handle(h.root, ChildPath(h, name), "file")) ELSE NotGot

\* h.getFile(): the file's data, NotFoundError once the file is gone
getFile(h) ==
  IF h.kind = "file" /\ EntryAt(h.root, h.path) \in FsContents
  THEN Returned(EntryAt(h.root, h.path))
  ELSE [threw |-> TRUE, value |-> Missing]

\* the names h.keys() yields
keys(h) == {p \in FsPaths : /\ EntryAt(h.root, p) # Missing
                             /\ \E i \in 1..Len(p) : p = ChildPath(h, <<p[i]>>)}

\* the storage once h.removeEntry(name) has removed the entry and all below
Removed(h, name) ==
  [storage EXCEPT ![h.root] = [p \in FsPaths |->
     IF p = ChildPath(h, name) \/ StartsWith(p, ChildPath(h, name) \o <<Slash>>)
     THEN Missing ELSE storage[h.root][p]]]

\* h.removeEntry(name, {recursive}): how it ends
removeEntry(h, name, recursive) ==
  IF h.kind # "directory" THEN "TypeError"
  ELSE IF ~IsLiveDir(h) \/ EntryAt(h.root, ChildPath(h, name)) = Missing
  THEN "NotFoundError"
  ELSE IF ~recursive /\ keys(Handle(h.root, ChildPath(h, name), "directory")) # {}
  THEN "InvalidModificationError"
  ELSE "ok"

----------------------------------------------------------------------------
(* client/src/lib/fsaAdapter.ts: the adapter with the handle cache *)

\* path.split('/').filter(p => p && p !== '.')
pathParts(pathStr) == SelectSeq(Split(pathStr), LAMBDA p : p # NoStr /\ p # Dot)

\* handleCache.has(key)
cacheHas(cache, key) == key \in FsPaths /\ cache[key] # NoHandle

Walk(threw, handle, cache, lookups, cacheRead, cacheWrite) ==
  [threw |-> threw, handle |-> handle, cache |-> cache, lookups |-> lookups,
   cacheRead |-> cacheRead, cacheWrite |-> cacheWrite]

RECURSIVE getHandleLoop(_, _, _)
\* the for loop of getHandle from part i on, w the walk so far
getHandleLoop(parts, i, w) ==
  IF i > Len(parts) THEN w
  ELSE
    LET part == parts[i]
        currentPath == Join(SubSeq(parts, 1, i))
        asDir  == getDirectoryHandle(w.handle, part)
        asFile == getFileHandle(w.handle, part)
        next == IF ~asDir.threw THEN asDir
                ELSE IF i = Len(parts) THEN asFile ELSE NotGot
    IN  IF cacheHas(w.cache, currentPath)
        THEN getHandleLoop(parts, i + 1,
               [w EXCEPT !.handle = w.cache[currentPath], !.cacheRead = TRUE])
        ELSE IF next.threw
        THEN [w EXCEPT !.threw = TRUE, !.handle = NoHandle,
                       !.lookups = TRUE, !.cacheRead = TRUE]
        ELSE getHandleLoop(parts, i + 1,
               [w EXCEPT !.handle = next.handle,
                         !.cache = [w.cache EXCEPT ![currentPath] = next.handle],
                         !.lookups = TRUE, !.cacheRead = TRUE,
                         !.cacheWrite = TRUE])

\* getHandle with the root test after the cache test
getHandle_cacheFirst(root, pathStr) ==
  LET start == Walk(FALSE, RootHandle(root), handleCache, FALSE, FALSE, FALSE)
  IN  IF cacheHas(handleCache, pathStr)
      THEN [start EXCEPT !.handle = handleCache[pathStr], !.cacheRead = TRUE]
      ELSE IF pathStr = NoStr \/ pathStr = Dot \/ pathStr = <<Slash>>
      THEN [start EXCEPT !.cacheRead = TRUE]
      ELSE getHandleLoop(pathParts(pathStr), 1, [start EXCEPT !.cacheRead = TRUE])

\* getHandle(pathStr): the handle or ENOENT, and the cache it leaves
getHandle(root, pathStr) ==
  LET start == Walk(FALSE, RootHandle(root), handleCache, FALSE, FALSE, FALSE)
  IN  IF pathStr = NoStr \/ pathStr = Dot \/ pathStr = <<Slash>> THEN start
      ELSE IF cacheHas(handleCache, pathStr)
      THEN [start EXCEPT !.handle = handleCache[pathStr], !.cacheRead = TRUE]
      ELSE getHandleLoop(pathParts(pathStr), 1, [start EXCEPT !.cacheRead = TRUE])

\* the flags of a walk copied into the record of a call
WithWalk(res, w) ==
  [res EXCEPT !.lookups = w.lookups, !.cacheRead = w.cacheRead,
              !.cacheWrite = w.cacheWrite]

\* readFile(path): how it ends and what it returns
readFileRes(root, path) ==
  LET w == getHandle(root, path)
      file == getFile(w.handle)
  IN  WithWalk(
        IF w.threw THEN FsaRes("readFile", root, path, "ENOENT", NoValue)
        ELSE IF w.handle.kind # "file"
        THEN FsaRes("readFile", root, path, "EISDIR", NoValue)
        ELSE IF file.threw
        THEN FsaRes("readFile", root, path, "NotFoundError", NoValue)
        ELSE FsaRes("readFile", root, path, "ok",
                    FsaValue(TRUE, FALSE, 1, file.value)), w)

\* lines 203-212 of stat: the fields read off the handle
statOfHandle(root, path, h) ==
  LET isFile == h.kind = "file"
      file == getFile(h)
  IN  IF isFile /\ file.threw
      THEN FsaRes("stat", root, path, "NotFoundError", NoValue)
      ELSE FsaRes("stat", root, path, "ok",
                  FsaValue(isFile, ~isFile, IF isFile THEN 1 ELSE 0, Missing))

\* stat(path): getHandle(path || '.'), then the fields of the result
statRes(root, path) ==
  LET w == getHandle(root, OrElse(path, Dot))
  IN  WithWalk(IF w.threw THEN FsaRes("stat", root, path, "ENOENT", NoValue)
               ELSE statOfHandle(root, path, w.handle), w)

RECURSIVE createDirs(_, _, _, _)
\* current.getDirectoryHandle(p, {create: true}) down the first n parts,
\* from the root handle: the storage it leaves, or TypeMismatchError at a file
createDirs(st, root, parts, n) ==
  IF n = 0 THEN [threw |-> FALSE, st |-> st]
  ELSE
    LET above == createDirs(st, root, parts, n - 1)
        dir == Join(SubSeq(parts, 1, n))
    IN  IF above.threw THEN above
        ELSE IF EntryIn(above.st, root, dir) \in FsContents
        THEN [threw |-> TRUE, st |-> above.st]
        ELSE [threw |-> FALSE,
              st |-> [above.st EXCEPT ![root][dir] = DirEntry]]

\* writeFile(path, data): the storage it leaves and how it ends
writeFileRes(root, path, data) ==
  LET parts == pathParts(path)
      dirs == createDirs(storage, root, parts, Len(parts) - 1)
      full == Join(parts)
  IN  IF parts = << >> THEN [outcome |-> "TypeError", st |-> storage]
      ELSE IF dirs.threw \/ EntryIn(dirs.st, root, full) = DirEntry
      THEN [outcome |-> "TypeMismatchError", st |-> dirs.st]
      ELSE [outcome |-> "ok", st |-> [dirs.st EXCEPT ![root][full] = data]]

\* unlink / rmdir that also drop the cache entry of what they removed
removeRes_invalidates(op, root, path, recursive) ==
  LET parts == pathParts(path)
      name == parts[Len(parts)]
      w == getHandle(root, Join(SubSeq(parts, 1, Len(parts) - 1)))
  IN  IF parts = << >>
      THEN [res |-> FsaRes(op, root, path, "TypeError", NoValue),
            cache |-> handleCache, st |-> storage]
      ELSE IF w.threw
      THEN [res |-> WithWalk(FsaRes(op, root, path, "ENOENT", NoValue), w),
            cache |-> w.cache, st |-> storage]
      ELSE LET out == removeEntry(w.handle, name, recursive) IN
           [res |-> WithWalk(FsaRes(op, root, path, out, NoValue), w),
            cache |-> IF out = "ok"
                     THEN [w.cache EXCEPT ![Join(parts)] = NoHandle]
                     ELSE w.cache,
            st |-> IF out = "ok" THEN Removed(w.handle, name) ELSE storage]

\* unlink(path) / rmdir(path): the walk to the parent, then
\* parent.removeEntry(name) without or with {recursive: true}
removeRes(op, root, path, recursive) ==
  LET parts == pathParts(path)
      name == parts[Len(parts)]
      w == getHandle(root, Join(SubSeq(parts, 1, Len(parts) - 1)))
  IN  IF parts = << >>
      THEN [res |-> FsaRes(op, root, path, "TypeError", NoValue),
            cache |-> handleCache, st |-> storage]
      ELSE IF w.threw
      THEN [res |-> WithWalk(FsaRes(op, root, path, "ENOENT", NoValue), w),
            cache |-> w.cache, st |-> storage]
      ELSE LET out == removeEntry(w.handle, name, recursive) IN
           [res |-> WithWalk(FsaRes(op, root, path, out, NoValue), w),
            cache |-> w.cache,
            st |-> IF out = "ok" THEN Removed(w.handle, name) ELSE storage]

\* the paths the object-store reader and the application pass
FsInputs == {NoStr, Dot, <<Slash>>, FsDir, <<Slash>> \o FsDir, FsFile}

FsaReadFile ==
  \E root \in Roots, path \in FsInputs :
    LET r == readFileRes(root, path)
        afterWrite == /\ fsaRes.op = "writeFile" /\ fsaRes.outcome = "ok"
                      /\ fsaRes.root = root /\ fsaRes.path = path
    IN
    /\ fsaRes' = [r EXCEPT
         !.afterWrite = afterWrite,
         !.written = IF afterWrite THEN fsaRes.written ELSE Missing]
    /\ handleCache' = getHandle(root, path).cache
    /\ UNCHANGED <<storage, pending, repoVars, req, resp,
                 graphVars, restVars>>

FsaStat ==
  \E root \in Roots, path \in FsInputs :
    /\ fsaRes' = statRes(root, path)
    /\ handleCache' = getHandle(root, OrElse(path, Dot)).cache
    /\ UNCHANGED <<storage, pending, repoVars, req, resp,
                 graphVars, restVars>>

FsaWriteFile ==
  \E root \in Roots, path \in FsInputs, data \in FsContents :
    LET r == writeFileRes(root, path, data) IN
    /\ storage' = r.st
    /\ fsaRes' = [FsaRes("writeFile", root, path, r.outcome, NoValue)
                    EXCEPT !.lookups = TRUE, !.written = data]
    /\ UNCHANGED <<handleCache, pending, repoVars, req, resp,
                 graphVars, restVars>>

\* readdir(path): getHandle(path || '.'), ENOTDIR unless a directory handle
FsaReaddir ==
  \E root \in Roots, path \in FsInputs :
    LET w == getHandle(root, OrElse(path, Dot))
        r == IF w.threw THEN FsaRes("readdir", root, path, "ENOENT", NoValue)
             ELSE IF w.handle.kind # "directory"
             THEN FsaRes("readdir", root, path, "ENOTDIR", NoValue)
             ELSE IF ~IsLiveDir(w.handle)
             THEN FsaRes("readdir", root, path, "NotFoundError", NoValue)
             ELSE [FsaRes("readdir", root, path, "ok", NoValue)
                     EXCEPT !.names = keys(w.handle)]
    IN  /\ fsaRes' = WithWalk(r, w)
        /\ handleCache' = w.cache
        /\ UNCHANGED <<storage, pending, repoVars, req, resp,
                 graphVars, restVars>>

FsaUnlink ==
  \E root \in Roots, path \in FsInputs :
    LET r == removeRes("unlink", root, path, FALSE) IN
    /\ storage' = r.st
    /\ handleCache' = r.cache
    /\ fsaRes' = r.res
    /\ UNCHANGED <<pending, repoVars, req, resp,
                 graphVars, restVars>>

FsaRmdir ==
  \E root \in Roots, path \in FsInputs :
    LET r == removeRes("rmdir", root, path, TRUE) IN
    /\ storage' = r.st
    /\ handleCache' = r.cache
    /\ fsaRes' = r.res
    /\ UNCHANGED <<pending, repoVars, req, resp,
                 graphVars, restVars>>

\* mkdir(path): getDirectoryHandle(p, {create: true}) down every part
FsaMkdir ==
  \E root \in Roots, path \in FsInputs :
    LET parts == pathParts(path)
        r == createDirs(storage, root, parts, Len(parts))
    IN  /\ storage' = r.st
        /\ fsaRes' = [FsaRes("mkdir", root, path,
                        IF r.threw THEN "TypeMismatchError" ELSE "ok", NoValue)
                        EXCEPT !.lookups = parts # << >>]
        /\ UNCHANGED <<handleCache, pending, repoVars, req, resp,
                 graphVars, restVars>>

\* readlink() { return ''; }
FsaReadlink ==
  \E root \in Roots :
    /\ fsaRes' = FsaRes("readlink", root, NoStr, "ok", NoValue)
    /\ UNCHANGED <<storage, handleCache, pending, repoVars, req, resp,
                 graphVars, restVars>>

\* symlink() { }
FsaSymlink ==
  \E root \in Roots :
    /\ fsaRes' = FsaRes("symlink", root, NoStr, "ok", NoValue)
    /\ UNCHANGED <<storage, handleCache, pending, repoVars, req, resp,
                 graphVars, restVars>>

\* the adapter without the cache: throw new Error('Not implemented: ...')
FsaReadlinkUncached ==
  \E root \in Roots :
    /\ fsaRes' = FsaRes("readlink (uncached adapter)", root, NoStr,
                        "NotImplemented", NoValue)
    /\ UNCHANGED <<storage, handleCache, pending, repoVars, req, resp,
                 graphVars, restVars>>

FsaSymlinkUncached ==
  \E root \in Roots :
    /\ fsaRes' = FsaRes("symlink (uncached adapter)", root, NoStr,
                        "NotImplemented", NoValue)
    /\ UNCHANGED <<storage, handleCache, pending, repoVars, req, resp,
                 graphVars, restVars>>

NextFsa ==
  \/ FsaReadFile
  \/ FsaStat
  \/ FsaWriteFile
  \/ FsaReaddir
  \/ FsaUnlink
  \/ FsaRmdir
  \/ FsaMkdir
  \/ FsaReadlink
  \/ FsaSymlink
  \/ FsaReadlinkUncached
  \/ FsaSymlinkUncached

SpecFsa == Init /\ [][NextFsa]_vars

----------------------------------------------------------------------------
(* Properties of the filesystem adapter *)

SyntheticRoot == {NoStr, Dot, <<Slash>>}

\* C16: stat of the synthetic root ("", "." or "/") succeeds and reports a
\* directory of size 0, without asking any handle for a child and without
\* reading or writing the handle cache
C16_RootStatWithoutLookup ==
  (fsaRes.op = "stat" /\ fsaRes.path \in SyntheticRoot)
    => /\ fsaRes.outcome = "ok"
       /\ fsaRes.value.isDirectory /\ ~fsaRes.value.isFile
       /\ fsaRes.value.size = 0
       /\ ~fsaRes.lookups /\ ~fsaRes.cacheRead /\ ~fsaRes.cacheWrite

\* the root is stat'ed while the cache holds handles and the storage under
\* the adapter has lost what they name
C16_Witness ==
  /\ fsaRes.op = "stat" /\ fsaRes.path = <<Slash>> /\ fsaRes.outcome = "ok"
  /\ handleCache[FsDir] # NoHandle
  /\ storage[fsaRes.root][FsDir] = Missing

\* C17: readFile(F) straight after a successful writeFile(F, X) through the
\* same adapter returns X, whatever any adapter did before
C17_WriteThenRead ==
  (fsaRes.op = "readFile" /\ fsaRes.afterWrite)
    => fsaRes.outcome = "ok" /\ fsaRes.value.data = fsaRes.written

\* some segment of the path is absent from the storage under the adapter
SegmentAbsent(root, path) ==
  \E i \in 1..Len(pathParts(path)) :
    EntryAt(root, Join(SubSeq(pathParts(path), 1, i))) = Missing

\* C18: readFile and stat of a path with an absent segment fail with ENOENT,
\* also after unlink and rmdir of paths resolved before
C18_AbsentIsNotFound ==
  (fsaRes.op \in {"readFile", "stat"} /\ SegmentAbsent(fsaRes.root, fsaRes.path))
    => fsaRes.outcome = "ENOENT"

SymlinkOps == {"readlink", "symlink", "readlink (uncached adapter)",
               "symlink (uncached adapter)"}

\* C19: readlink and symlink fail with NotImplemented; neither returns a
\* value or completes
C19_SymlinkNotImplemented ==
  fsaRes.op \in SymlinkOps => fsaRes.outcome = "NotImplemented"

----------------------------------------------------------------------------
(* The log query, and every query when the repository cannot be resolved:  *)
(* an id the server's registry does not hold, a directory handle whose     *)
(* every read fails                                                         *)

\* git.log / git log -n 50: the commits from HEAD back, newest first
gitLog == LogOf(Len(commits))

\* gitService.getLog: the mapped log, [] when git.log throws
getLog(readable) == IF readable THEN gitLog ELSE << >>

\* GET /api/repositories/:id/log
serverLog(known) ==
  IF ~known THEN Response("404")
  ELSE [Response("200") EXCEPT !.log = gitLog]

\* if (!repo) return res.status(404).json({ error: 'Repository not found' })
repoNotFound == Response("404")

\* getStatus over an unreadable handle: both reads of the branch are caught,
\* statusMatrix is awaited outside any try and its failure rejects the call
getStatusUnreadable == Response("threw")

\* getFiles over an unreadable handle: getStatus rejects, statusMatrix
\* rejects, and the catch of either branch returns []
getFilesUnreadable(from, to) == << >>

\* getDiff over an unreadable handle: getBlob and getWorking catch every
\* failure and give the empty string
getDiffUnreadable(file, from, to) ==
  LET files == IF file # NoStr THEN <<file>> ELSE getFilesUnreadable(from, to)
      kept  == SelectSeq(files, LAMBDA f : ~(EmptyText = EmptyText /\ file = NoStr))
  IN  [i \in 1..Len(kept) |->
        createPatch(kept[i], EmptyText, EmptyText,
                    OrElse(from, HEADStr), OrElse(to, WorkingTreeStr))]

\* getFileContent over an unreadable handle: the catch returns null
getFileContentUnreadable == Response("null")

ClientGetLog ==
  /\ Idle
  /\ req' = Request("getLog", NoStr, NoStr, NoStr, NoStr)
  /\ resp' = [Response("ok") EXCEPT !.log = getLog(TRUE)]
  /\ UNCHANGED <<repoVars, graphVars, restVars, fsaVars>>

ServerGetLog ==
  /\ Idle
  /\ req' = Request("GET log", NoStr, NoStr, NoStr, NoStr)
  /\ resp' = serverLog(TRUE)
  /\ UNCHANGED <<repoVars, graphVars, restVars, fsaVars>>

\* a request for an id the registry does not hold
ServerUnknownId ==
  /\ Idle
  /\ \/ /\ req' = Request("GET status (unknown id)", NoStr, NoStr, NoStr, NoStr)
        /\ resp' = repoNotFound
     \/ /\ req' = Request("GET log (unknown id)", NoStr, NoStr, NoStr, NoStr)
        /\ resp' = serverLog(FALSE)
     \/ \E from \in Refs, to \in Refs :
        /\ req' = Request("GET files (unknown id)", NoStr, from, to, NoStr)
        /\ resp' = repoNotFound
     \/ \E file \in {NoStr, PathA}, from \in Refs, to \in Refs :
        /\ req' = Request("GET diff (unknown id)", file, from, to, NoStr)
        /\ resp' = repoNotFound
     \/ \E version \in Versions :
        /\ req' = Request("GET content (unknown id)", PathA, NoStr, NoStr, version)
        /\ resp' = serverContent(FALSE, PathA, version)
  /\ UNCHANGED <<repoVars, graphVars, restVars, fsaVars>>

\* a query of gitService over a directory handle whose every read fails
ClientUnreadableHandle ==
  /\ Idle
  /\ \/ /\ req' = Request("getStatus (unreadable)", NoStr, NoStr, NoStr, NoStr)
        /\ resp' = getStatusUnreadable
     \/ /\ req' = Request("getLog (unreadable)", NoStr, NoStr, NoStr, NoStr)
        /\ resp' = [Response("ok") EXCEPT !.log = getLog(FALSE)]
     \/ \E from \in Refs, to \in Refs :
        /\ req' = Request("getFiles (unreadable)", NoStr, from, to, NoStr)
        /\ resp' = [Response("ok") EXCEPT !.files = getFilesUnreadable(from, to)]
     \/ \E file \in {NoStr, PathA}, from \in Refs, to \in Refs :
        /\ req' = Request("getDiff (unreadable)", file, from, to, NoStr)
        /\ resp' = [Response("ok") EXCEPT
                      !.diff = getDiffUnreadable(file, from, to),
                      !.cmp = getDiffCmp(from, to)]
     \/ \E version \in Versions :
        /\ req' = Request("getFileContent (unreadable)", PathA, NoStr, NoStr, version)
        /\ resp' = getFileContentUnreadable
  /\ UNCHANGED <<repoVars, graphVars, restVars, fsaVars>>

NextUnresolved ==
  \/ Environment
  \/ ClientGetLog
  \/ ServerGetLog
  \/ ServerUnknownId
  \/ ClientUnreadableHandle

SpecUnresolved == Init /\ [][NextUnresolved]_vars

----------------------------------------------------------------------------
(* Properties of an unresolved repository *)

UnknownIdOps == {"GET status (unknown id)", "GET log (unknown id)",
                 "GET files (unknown id)", "GET diff (unknown id)",
                 "GET content (unknown id)"}

UnreadableOps == {"getStatus (unreadable)", "getLog (unreadable)",
                  "getFiles (unreadable)", "getDiff (unreadable)",
                  "getFileContent (unreadable)"}

\* C20: when the repository cannot be resolved, every query (status, log,
\* files, diff, content) reports an error to its caller - 404 on the server,
\* a thrown error or the not-found value in the browser - and never an
\* ordinary result
C20_UnresolvedIsAnError ==
  /\ req.op \in UnknownIdOps => resp.status = "404"
  /\ req.op \in UnreadableOps => resp.status \in {"threw", "null"}

----------------------------------------------------------------------------
(* Properties of the graph-to-range translation ('UNSET' edition) *)

\* the last entry of the history: the commit with no predecessor in the list
RootCommit == entries[Len(entries)]

\* the selected node that lies lower in the list (a lone from is both)
OlderSelected(sel) ==
  IF sel.to = UnsetStr \/ sel.to = Null THEN sel.from
  ELSE IF sel.from = Null THEN sel.to
  ELSE graphData[Max(findIndex(sel.from), findIndex(sel.to))]

\* C25: when the older of the selected nodes is the last entry of the
\* history (the root commit) the emitted base is the root commit itself, and
\* with the root commit as the only selected node the range is (root, root)
C25_RootFallsBackToItself ==
  (Clicked(lastClickRef) /\ entries # << >>
      /\ OlderSelected(selectionRef) = RootCommit)
    => /\ diffRangeRef.from = RootCommit
       /\ selectionRef = Selection(RootCommit, UnsetStr)
            => diffRangeRef = Selection(RootCommit, RootCommit)

\* the root of a history of several commits is selected alone, and as the
\* older end of a pair
C25_Witness ==
  /\ Len(entries) >= 2 /\ Clicked(lastClickRef)
  /\ selectionRef.from = RootCommit
  /\ diffRangeRef.from = RootCommit
  /\ \/ selectionRef.to = UnsetStr /\ diffRangeRef.to = RootCommit
     \/ IsEntry(selectionRef.to) /\ selectionRef.to # RootCommit

----------------------------------------------------------------------------
(* stat with the awaits of its walk as steps: between two lookups of one
   walk, any other adapter operation may run *)

RECURSIVE skipCached(_, _, _, _)
\* the iterations of the for loop of getHandle that only read the cache
skipCached(cache, parts, i, current) ==
  IF i <= Len(parts) /\ cacheHas(cache, Join(SubSeq(parts, 1, i)))
  THEN skipCached(cache, parts, i + 1, cache[Join(SubSeq(parts, 1, i))])
  ELSE [i |-> i, handle |-> current]

\* stat(path) up to its first await of a lookup
FsaStatBegin ==
  \E root \in Roots, path \in {FsDir, FsFile} :
    LET parts == pathParts(path)
        k == skipCached(handleCache, parts, 1, RootHandle(root))
    IN  /\ pending = NoPending
        /\ path \notin {NoStr, Dot, <<Slash>>}
        /\ ~cacheHas(handleCache, path)
        /\ k.i <= Len(parts)
        /\ pending' = Pending(root, path, k.i, k.handle)
        /\ UNCHANGED <<storage, handleCache, fsaRes, repoVars, req, resp,
                       graphVars, restVars>>

\* the awaited lookup settles: ENOENT, or handleCache.set and the walk goes
\* on to its next await or to the end of stat
FsaStatResume ==
  LET parts == pathParts(pending.path)
      i == pending.i
      currentPath == Join(SubSeq(parts, 1, i))
      asDir  == getDirectoryHandle(pending.handle, parts[i])
      asFile == getFileHandle(pending.handle, parts[i])
      next == IF ~asDir.threw THEN asDir
              ELSE IF i = Len(parts) THEN asFile ELSE NotGot
      cache1 == [handleCache EXCEPT ![currentPath] = next.handle]
      k == skipCached(cache1, parts, i + 1, next.handle)
      flags == Walk(FALSE, NoHandle, cache1, TRUE, TRUE, ~next.threw)
  IN  /\ pending # NoPending
      /\ IF next.threw
         THEN /\ fsaRes' = WithWalk(FsaRes("stat", pending.root, pending.path,
                                           "ENOENT", NoValue), flags)
              /\ pending' = NoPending
              /\ UNCHANGED handleCache
         ELSE /\ handleCache' = cache1
              /\ IF k.i <= Len(parts)
                 THEN /\ pending' = Pending(pending.root, pending.path,
                                            k.i, k.handle)
                      /\ UNCHANGED fsaRes
                 ELSE /\ pending' = NoPending
                      /\ fsaRes' = WithWalk(statOfHandle(pending.root,
                                              pending.path, k.handle), flags)
      /\ UNCHANGED <<storage, repoVars, req, resp, graphVars, restVars>>

AdapterOps == {"readFile", "writeFile", "readdir", "stat", "mkdir",
               "unlink", "rmdir"}

\* another call of the adapter runs from start to end, while a walk is
\* suspended or not; of its result only the operation and how it ended are
\* kept
FsaCall ==
  \E op \in AdapterOps, root \in Roots, path \in {Dot, FsDir, FsFile} :
    \E data \in IF op = "writeFile" THEN FsContents ELSE {"x"} :
      LET w == getHandle(root, IF op = "readFile" THEN path
                               ELSE OrElse(path, Dot))
          rm == removeRes(op, root, path, op = "rmdir")
          wr == writeFileRes(root, path, data)
          mk == createDirs(storage, root, pathParts(path),
                           Len(pathParts(path)))
          outcome ==
            CASE op = "readFile" -> readFileRes(root, path).outcome
              [] op = "stat" -> statRes(root, path).outcome
              [] op = "readdir" ->
                   IF w.threw THEN "ENOENT"
                   ELSE IF w.handle.kind # "directory" THEN "ENOTDIR"
                   ELSE IF ~IsLiveDir(w.handle) THEN "NotFoundError"
                   ELSE "ok"
              [] op = "writeFile" -> wr.outcome
              [] op = "mkdir" -> IF mk.threw THEN "TypeMismatchError" ELSE "ok"
              [] OTHER -> rm.res.outcome
      IN  /\ storage' = CASE op = "writeFile" -> wr.st
                          [] op = "mkdir" -> mk.st
                          [] op \in {"unlink", "rmdir"} -> rm.st
                          [] OTHER -> storage
          /\ handleCache' = CASE op \in {"readFile", "stat", "readdir"} -> w.cache
                              [] op \in {"unlink", "rmdir"} -> rm.cache
                              [] OTHER -> handleCache
          /\ fsaRes' = FsaRes(op, "none", NoStr, outcome, NoValue)
          /\ UNCHANGED <<pending, repoVars, req, resp, graphVars, restVars>>

NextFsaAsync ==
  \/ FsaStatBegin
  \/ FsaStatResume
  \/ FsaCall

SpecFsaAsync == Init /\ [][NextFsaAsync]_vars

CachedKeys == {p \in FsPaths : handleCache[p] # NoHandle}

\* C26: no step of any adapter operation, however the operations interleave,
\* takes a key out of the path-resolution cache: the set of cached keys of the
\* next state contains the set of cached keys of this one
C26_CacheOnlyGrows == [][CachedKeys \subseteq CachedKeys']_vars

\* a walk is suspended on a lookup while the cache holds both keys and the
\* owner of the cached file handle has lost the file to an unlink or rmdir
C26_Witness ==
  /\ pending # NoPending
  /\ CachedKeys = FsPaths
  /\ fsaRes.op \in {"unlink", "rmdir"}
  /\ fsaRes.outcome = "ok"
  /\ EntryIn(storage, handleCache[FsFile].root, FsFile) = Missing

\* C27: in every state, for every root and every path, what getHandle returns
\* when it does not throw is the handle of that root at that path
C27_HandleIsUnderOwnRoot ==
  \A root \in Roots, path \in FsInputs :
    LET w == getHandle(root, path) IN
    ~w.threw => /\ w.handle.root = root
                /\ w.handle.path = Join(pathParts(path))

----------------------------------------------------------------------------
(* The path check of the content route, read the other way round *)

\* C30: a content request is answered 403 only when its file resolves to the
\* repository root itself or to a place outside it; a file that resolves
\* strictly inside the root is never answered 403
C30_DeniedOnlyEscapes ==
  (req.op = "GET content" /\ resp.status = "403") =>
    \/ escapesRoot(req.file)
    \/ pathResolve(RepoRoot, req.file) = RepoRoot

----------------------------------------------------------------------------
(* server/src/index.ts: the registry of repositories, repositories.json *)

MaxIds == 2

\* the directories of the host that hold a git working copy, and one that
\* does not
GitDirs == {<< <<"r">> >>, << <<"s">> >>}

PlainDirs == {<< <<"q">> >>}

\* the paths a client posts: two spellings of /r, /s, /q and a missing /m
AddInputs ==
  {<<Slash, "r">>, <<Slash, "r", Slash>>, <<Slash, "s">>, <<Slash, "q">>,
   <<Slash, "m">>}

\* the first 12 hex digits of the md5 of the normalized path: a name that
\* differs for the paths of the model
md5Id(normalizedPath) == <<"#">> \o Join(normalizedPath)

IdPool == {md5Id(d) : d \in GitDirs \cup PlainDirs}

RECURSIVE SeqsUpTo(_, _)
SeqsUpTo(S, n) ==
  IF n = 0 THEN {<< >>}
  ELSE SeqsUpTo(S, n - 1) \cup
       {Append(q, x) : q \in {u \in SeqsUpTo(S, n - 1) : Len(u) = n - 1}, x \in S}

\* POST /api/repositories
RegistryAdd ==
  \E repoPath \in AddInputs :
    LET normalizedPath == pathResolve(<< >>, repoPath)
        id == md5Id(normalizedPath)
        status ==
          IF normalizedPath \notin GitDirs \cup PlainDirs
          THEN "Directory does not exist"
          ELSE IF normalizedPath \notin GitDirs
          THEN "Not a valid git repository"
          ELSE IF \E i \in DOMAIN registry :
                    registry[i].path = normalizedPath \/ registry[i].id = id
          THEN "Repository already registered"
          ELSE "ok"
    IN  /\ registry' = IF status = "ok"
                       THEN Append(registry, [id |-> id, path |-> normalizedPath])
                       ELSE registry
        /\ regRes' = RegRes("add", repoPath, status, registry)
        /\ UNCHANGED <<repoVars, req, resp, graphVars, fsaVars, storeVars,
                       appVars>>

\* DELETE /api/repositories/:id
RegistryDelete ==
  \E id \in IdPool :
    /\ registry' = SelectSeq(registry, LAMBDA r : r.id # id)
    /\ regRes' = RegRes("delete", id, "204", registry)
    /\ UNCHANGED <<repoVars, req, resp, graphVars, fsaVars, storeVars,
                   appVars>>

RECURSIVE reordered(_, _)
\* repositoryIds.map(id => currentRepos.find(r => r.id === id)).filter(Boolean)
reordered(currentRepos, repositoryIds) ==
  IF repositoryIds = << >> THEN << >>
  ELSE LET found == SelectSeq(currentRepos,
                              LAMBDA r : r.id = Head(repositoryIds))
       IN  (IF found = << >> THEN << >> ELSE <<Head(found)>>)
             \o reordered(currentRepos, Tail(repositoryIds))

\* POST /api/repositories/reorder
RegistryReorder ==
  \E repositoryIds \in SeqsUpTo(IdPool, MaxIds) :
    /\ registry' = reordered(registry, repositoryIds)
    /\ regRes' = RegRes("reorder", repositoryIds, "200", registry)
    /\ UNCHANGED <<repoVars, req, resp, graphVars, fsaVars, storeVars,
                   appVars>>

NextRegistry ==
  \/ RegistryAdd
  \/ RegistryDelete
  \/ RegistryReorder

SpecRegistry == Init /\ [][NextRegistry]_vars

\* C22: a reorder leaves the set of registered repositories as it was,
\* whatever list of ids it was given
C22_ReorderKeepsTheSet ==
  regRes.op = "reorder" => Range(registry) = Range(regRes.before)

\* C23: no two entries of the persisted list share an id or a path, and an
\* add of a path that is registered answers 'already registered' and leaves
\* the list as it was
C23_NoDuplicateEntries ==
  /\ \A i, j \in DOMAIN registry :
       i # j => /\ registry[i].id # registry[j].id
                /\ registry[i].path # registry[j].path
  /\ (/\ regRes.op = "add"
      /\ \E i \in DOMAIN regRes.before :
           regRes.before[i].path = pathResolve(<< >>, regRes.arg))
       => /\ regRes.status = "Repository already registered"
          /\ registry = regRes.before

----------------------------------------------------------------------------
(* client/src/lib/repoStore.ts: the list of repositories in localStorage.
   A call reads the list when it is made, awaits, and writes its own copy
   back when it resumes *)

MaxOps == 3

StoreOp(kind, arg, snapshot, phase) ==
  [kind |-> kind, arg |-> arg, snapshot |-> snapshot, phase |-> phase]

StoredIds == {stored[i].id : i \in DOMAIN stored}

\* the orders of the listed repositories a drag can ask for
Orders ==
  {q \in SeqsUpTo(StoredIds, Len(stored)) :
     Len(q) = Len(stored) /\ Range(q) = StoredIds}

\* addRepository up to `await this.getRepositories()`; the id stands for
\* crypto.randomUUID(), new at every call
StoreAddBegin ==
  /\ Len(storeOps) < MaxOps
  /\ storeOps' = Append(storeOps,
                   StoreOp("add", Len(storeOps) + 1, stored, "read"))
  /\ UNCHANGED <<stored, repoVars, req, resp, graphVars, fsaVars,
                 registryVars, appVars>>

\* removeRepository(id) of a listed repository, up to its first await
StoreRemoveBegin ==
  \E id \in StoredIds :
    /\ Len(storeOps) < MaxOps
    /\ storeOps' = Append(storeOps, StoreOp("remove", id, stored, "read"))
    /\ UNCHANGED <<stored, repoVars, req, resp, graphVars, fsaVars,
                   registryVars, appVars>>

\* reorderRepositories(ids) up to its first await
StoreReorderBegin ==
  \E ids \in Orders :
    /\ Len(storeOps) < MaxOps
    /\ storeOps' = Append(storeOps, StoreOp("reorder", ids, stored, "read"))
    /\ UNCHANGED <<stored, repoVars, req, resp, graphVars, fsaVars,
                   registryVars, appVars>>

\* the list a call writes back, made of the list it read
savedList(op) ==
  CASE op.kind = "add" -> Append(op.snapshot, [id |-> op.arg])
    [] op.kind = "remove" -> SelectSeq(op.snapshot, LAMBDA r : r.id # op.arg)
    [] OTHER -> reordered(op.snapshot, op.arg)

\* a suspended call resumes: this.saveRepositories(...)
StoreSave ==
  \E i \in DOMAIN storeOps :
    /\ storeOps[i].phase = "read"
    /\ stored' = savedList(storeOps[i])
    /\ storeOps' = [storeOps EXCEPT ![i].phase = "done"]
    /\ UNCHANGED <<repoVars, req, resp, graphVars, fsaVars, registryVars,
                   appVars>>

NextStore ==
  \/ StoreAddBegin
  \/ StoreRemoveBegin
  \/ StoreReorderBegin
  \/ StoreSave

SpecStore == Init /\ [][NextStore]_vars

OpsOf(kind) == {i \in DOMAIN storeOps : storeOps[i].kind = kind}

\* C29: once every call has completed, every repository added and not
\* removed is in the stored list and every repository removed is not
C29_NoLostUpdate ==
  (\A i \in DOMAIN storeOps : storeOps[i].phase = "done") =>
    /\ \A i \in OpsOf("add") :
         (\A j \in OpsOf("remove") : storeOps[j].arg # storeOps[i].arg)
           => storeOps[i].arg \in StoredIds
    /\ \A j \in OpsOf("remove") : storeOps[j].arg \notin StoredIds

----------------------------------------------------------------------------
(* client/src/App.tsx: the active repository, the selected file, the range,
   and the calls of gitService its effects make.  A call reads the
   repository when it settles; the history panel is open *)

MaxInFlight == 2

DefaultRange == Selection(Null, Null)

\* the log the history graph shows for a repository
historyOf(repo) == IF repo = "A" THEN LogOf(Len(commits)) ELSE <<Oid(8)>>

\* the calls the effects of lines 292-310 make when the dependencies named
\* in kinds changed: updateStatus(id), fetchDiff and fetchRangeFiles
effects(kinds, repo, file, range) ==
  {Fetch(k, repo, IF k = "diff" THEN file ELSE Null,
         IF k = "status" THEN DefaultRange ELSE range) : k \in kinds}

\* (diffRange.from ? rangeModifiedFiles : activeRepo?.status?.modifiedFiles)
filteredFiles ==
  IF diffRange.from # Null THEN rangeModifiedFiles.files
  ELSE IF activeRepoId \in AppRepos THEN repoStatus[activeRepoId].modifiedFiles
  ELSE << >>

\* the calls of fetchDiff and fetchRangeFiles that have not settled
Awaited == {f \in fetches : f.kind # "status"}

\* onClick of a repo-item
AppSelectRepo ==
  \E repo \in AppRepos :
    LET kinds == IF repo # activeRepoId THEN {"status", "diff", "files"}
                 ELSE IF selectedFile # Null THEN {"diff"} ELSE {}
    IN  /\ Cardinality(Awaited) < MaxInFlight
        /\ activeRepoId' = repo
        /\ selectedFile' = Null
        /\ entries' = IF repo # activeRepoId THEN historyOf(repo) ELSE entries
        /\ fetches' = fetches \cup effects(kinds, repo, Null, diffRange)
        /\ UNCHANGED <<selection, diffRange, lastClick, selectionRef,
                       diffRangeRef, lastClickRef, activeDiff,
                       rangeModifiedFiles, repoStatus>>
        /\ UNCHANGED <<repoVars, req, resp, fsaVars, registryVars, storeVars>>

\* onClick of a file of the list, or of the entry for all files
AppSelectFile ==
  \E file \in Range(filteredFiles) \cup {Null} :
    /\ Cardinality(Awaited) < MaxInFlight
    /\ activeRepoId \in AppRepos
    /\ file # selectedFile
    /\ selectedFile' = file
    /\ fetches' = fetches \cup effects({"diff"}, activeRepoId, file, diffRange)
    /\ UNCHANGED <<graphVars, activeRepoId, activeDiff, rangeModifiedFiles,
                   repoStatus>>
    /\ UNCHANGED <<repoVars, req, resp, fsaVars, registryVars, storeVars>>

\* a click on a node of the graph: handleNodeClick, setDiffRange({from, to})
\* with a new object, and the two effects that depend on diffRange
AppNodeClick ==
  \E i \in 1..Len(graphData), shiftKey \in BOOLEAN :
    LET hash == clickedHash(graphData[i])
        newSelection == handleNodeClick(selection, hash, shiftKey)
    IN  /\ Cardinality(Awaited) < MaxInFlight
        /\ activeRepoId \in AppRepos
        /\ selection' = newSelection
        /\ diffRange' = Selection(newSelection.from, newSelection.to)
        /\ fetches' = fetches \cup effects({"diff", "files"}, activeRepoId,
                                           selectedFile, diffRange')
        /\ UNCHANGED <<entries, lastClick, selectionRef, diffRangeRef, lastClickRef,
                       activeRepoId, selectedFile, activeDiff,
                       rangeModifiedFiles, repoStatus>>
        /\ UNCHANGED <<repoVars, req, resp, fsaVars, registryVars, storeVars>>

\* the working-tree file of repository A is edited on the disk
AppEdit == \E c \in Contents : updateFile(PathA, c)

\* gitService.getStatus(handle) as updateStatus stores it
statusOf(repo) ==
  IF repo = "A"
  THEN LET s == getStatus(Returned(BranchMain))
       IN  [known |-> TRUE, modifiedFiles |-> s.modifiedFiles,
            hasChanges |-> s.hasChanges]
  ELSE [known |-> TRUE, modifiedFiles |-> << >>, hasChanges |-> FALSE]

\* a call settles.  updateStatus: setRepositories gives a new array and the
\* three effects run again for what is selected now.  fetchDiff and
\* fetchRangeFiles: setActiveDiff / setRangeModifiedFiles, unconditionally
AppSettle(f) ==
  /\ f \in fetches
  /\ IF f.kind = "status"
     THEN /\ repoStatus' = [repoStatus EXCEPT ![f.repo] = statusOf(f.repo)]
          /\ fetches' = (fetches \ {f}) \cup
               effects({"status", "diff", "files"}, activeRepoId,
                       selectedFile, diffRange)
          /\ UNCHANGED <<activeDiff, rangeModifiedFiles>>
     ELSE IF f.kind = "diff"
     THEN /\ activeDiff' =
               Shown(f.repo, f.file, f.range,
                     IF f.repo = "A" THEN getDiff(f.file, f.range.from, f.range.to)
                     ELSE << >>)
          /\ fetches' = fetches \ {f}
          /\ UNCHANGED <<rangeModifiedFiles, repoStatus>>
     ELSE /\ rangeModifiedFiles' =
               RangeFiles(f.repo, f.range,
                          IF f.repo = "A" THEN getFiles(f.range.from, f.range.to)
                          ELSE << >>)
          /\ fetches' = fetches \ {f}
          /\ UNCHANGED <<activeDiff, repoStatus>>
  /\ UNCHANGED <<graphVars, activeRepoId, selectedFile>>
  /\ UNCHANGED <<repoVars, req, resp, fsaVars, registryVars, storeVars>>

NextApp ==
  \/ AppSelectRepo
  \/ AppNodeClick
  \/ \E f \in fetches : AppSettle(f)

SpecApp == Init /\ [][NextApp]_vars

InFlight(kind) == {f \in fetches : f.kind = kind}

\* C24: when no diff call is in flight the diff shown is the one computed
\* for the repository, file and range selected now, and when no file-list
\* call is in flight the list shown is the one computed for the repository
\* and range selected now
C24_StaleResponsesDiscarded ==
  activeRepoId \in AppRepos =>
    /\ InFlight("diff") = {} =>
         /\ activeDiff.repo = activeRepoId
         /\ activeDiff.file = selectedFile
         /\ activeDiff.range = diffRange
    /\ InFlight("files") = {} =>
         /\ rangeModifiedFiles.repo = activeRepoId
         /\ rangeModifiedFiles.range = diffRange

\* C28: every diff or file-list call in flight has a range whose endpoints
\* are absent or are commits of the history of the repository it is made for
C28_RangeOfOwnHistory ==
  \A f \in InFlight("diff") \cup InFlight("files") :
    /\ f.range.from \in {Null} \cup Range(historyOf(f.repo))
    /\ f.range.to \in {Null} \cup Range(historyOf(f.repo))

----------------------------------------------------------------------------
(* The refresh of the status and of the diff after an edit on the disk *)

NextRefresh ==
  \/ AppEdit
  \/ AppSelectRepo
  \/ AppSelectFile
  \/ \E f \in fetches : AppSettle(f)

\* the two calls the refresh of an edited file waits for: the status of the
\* repository and the diff of the file against the working tree
RefreshCalls ==
  {Fetch("status", "A", Null, DefaultRange),
   Fetch("diff", "A", PathA, DefaultRange)}

\* the promises of gitService settle: neither of these calls stays in flight
\* forever
SpecRefresh ==
  /\ Init
  /\ [][NextRefresh]_vars
  /\ \A f \in RefreshCalls : WF_vars(AppSettle(f))

Edited == work[PathA] # HeadTree[PathA]

ListedAsModified ==
  /\ repoStatus["A"].hasChanges
  /\ PathA \in Range(repoStatus["A"].modifiedFiles)

ShowsTheEdit ==
  /\ activeDiff.repo = "A" /\ activeDiff.file = PathA
  /\ Len(activeDiff.patches) = 1
  /\ activeDiff.patches[1].old = HeadTree[PathA]
  /\ activeDiff.patches[1].new = work[PathA]
  /\ activeDiff.patches[1].hunks

============================================================================
